---- MODULE Spec2Model ----
(***************************************************************************)
(* State-machine model of chipy/analog.py: the process-global registries   *)
(* (ChipyModulesDict, the ChipyAnalogSignal.SigId counter, the per-class   *)
(* ChipyDevice.IdCount counters), the analog module objects with their     *)
(* signals and devices dictionaries, the Add* declaration functions and    *)
(* the netlist() serialisation.                                            *)
(*                                                                         *)
(* Python objects are modelled by identity: a module object is an index    *)
(* into `modules`, a signal object is its id (SigId after the increment of *)
(* its constructor), which indexes `sigobj`.  A device object lives in the *)
(* devices dictionary of its module; the attributes a constructor has set  *)
(* so far are the domain of its `attrs` field, so an object whose          *)
(* constructor raised half-way keeps exactly the attributes assigned       *)
(* before the exception.                                                   *)
(*                                                                         *)
(* A Python value whose type the code tests (isinstance, is None) is a     *)
(* record that carries its type: the str 'None' and the value None are     *)
(* different values.  So is a key of module.devices, which is whatever     *)
(* value the caller passed as the name, and the value of a device or of a  *)
(* netlist cell, and every value a caller hands over that an object        *)
(* stores.  A Python str that the code takes apart (str.split) is the      *)
(* sequence of its code points.  A Python exception leaving a function is  *)
(* the `exc` field of the store that function returns, which is `None`     *)
(* when it returned.                                                       *)
(*                                                                         *)
(* The caller of the library is part of the state as far as it decides     *)
(* which signal objects stay alive: `kept` is the signal object it holds   *)
(* in a variable of its own.  A signal object that can be reached neither  *)
(* from a module (as a value of signals, a key of devices, an attribute or *)
(* the value of a device, or a value stored in a signal so reached) nor    *)
(* from the caller is freed.                                               *)
(***************************************************************************)
EXTENDS Integers, Sequences, FiniteSets, TLC

VARIABLES
    modules,              \* heap of ChipyAnalogModule objects: index -> object
    ChipyModulesDict,     \* chipy.ChipyModulesDict: module name -> module object
    ChipyCurrentContext,  \* chipy.ChipyCurrentContext: stack of entered modules, <<>> is None
    sigobj,               \* heap of ChipyAnalogSignal objects: id -> object
    SigId,                \* ChipyAnalogSignal.SigId
    IdCount,              \* ChipyDevice subclass counters: RefDes -> IdCount
    raised,               \* the exception the last call raised, None when it returned
    kept                  \* the signal object the caller holds in a variable, 0 for none

vars == <<modules, ChipyModulesDict, ChipyCurrentContext, sigobj, SigId, IdCount,
          raised, kept>>

----------------------------------------------------------------------------
(* Bounds of the model and the inputs the calls are drawn from.            *)

MaxObjects == 3      \* signal objects created plus device objects registered
MaxCtxDepth == 1     \* nesting depth of `with module:` blocks

\* no exception pending, and the Skin of a class that has none
None == "None"

\* The exceptions a call can raise.  An AssertionError is written as the
\* assert statement that failed, which is what its traceback shows.
AssertModule == "assert name not in chipy.ChipyModulesDict"

AssertDevice == "assert not name in module.devices"

AssertWidth == "assert signal.width == width"

AssertArgWidth == "assert arg.width == width"

AssertWidthNone == "assert width is None"

AssertZero == "assert 0"

\* chipy.ChipyCurrentContext.module read while the context is None
NoModule == "AttributeError: 'NoneType' object has no attribute 'module'"

\* chipy.ChipyCurrentContext.popctx() called while the context is None
NoPopctx == "AttributeError: 'NoneType' object has no attribute 'popctx'"

AssertNames == "assert len(names) == 1"

AssertContext == "assert chipy.ChipyCurrentContext is not None"

ModNames == {"m1"}

TwoModNames == {"m1", "m2"}

\* A Python value handed to AnalogSig, to a terminal of a device or to
\* AddPower as its name: a str, a ChipyAnalogSignal object (by its id), a
\* tuple, an int, or None.
Str(n) == [kind |-> "str", name |-> n, id |-> 0]

Sig(i) == [kind |-> "ChipyAnalogSignal", name |-> "", id |-> i]

TupleArg == [kind |-> "tuple", name |-> "('a', 'R1')", id |-> 0]

IntArg == [kind |-> "int", name |-> "5", id |-> 0]

NoneArg == [kind |-> "NoneType", name |-> "None", id |-> 0]

\* the width argument of AnalogSig: None or an int
NoWidth == [isnone |-> TRUE, val |-> 0]

Width(n) == [isnone |-> FALSE, val |-> n]

WidthArgs == { NoWidth, Width(1), Width(2) }

\* Signal names handed to AddR, AddC, AddQ and AddGnd.
SigNames == { Str("a"), Str("R1") }

\* the int 0: the power_value, the levels and the thresholds a signal is
\* constructed with, and the default of low_value
Zero == [kind |-> "int", name |-> "0", id |-> 0]

\* the float 3.3, the default of high_value
Float33 == [kind |-> "float", name |-> "3.3", id |-> 0]

\* Names handed to AddPower: a signal name, the str 'None', and names that
\* are also the first reference designator of a device class.
PowerNames == { Str("a"), Str("None"), Str("R1"), Str("C1"), Str("Q1") }

\* the signal objects a caller can pass: every one that is alive
SigObjects == { Sig(i) : i \in DOMAIN sigobj }

\* arguments of every kind AnalogSig tells apart: a name, a signal object, a
\* tuple, an int
SigArgs == { Str("a") } \cup SigObjects \cup { TupleArg, IntArg }

\* the direct calls AnalogSig(arg, width).  A tuple without a width is handed
\* on to chipy.Concat, a function of chipy.Chipy, and is left out.
SigCalls == (SigArgs \X WidthArgs) \ { <<TupleArg, NoWidth>> }

\* name arguments of the port functions, as sequences of code points:
\* 'a', 'a\x0b\tR1' (two names separated by a vertical tab and a tab) and
\* '\u2003\n' (an em space and a line feed: whitespace without a name).
PortArgs == { <<97>>, <<97, 11, 9, 82, 49>>, <<8195, 10>> }

\* type arguments of the port functions: the ints 1 and 2 and a non-int.
TypeArgs == { [isint |-> TRUE, val |-> 1], [isint |-> TRUE, val |-> 2],
              [isint |-> FALSE, val |-> 0] }

\* the value arguments: the resistors are declared without a value (None is
\* a legal value argument), the capacitors with the str '1n', the supplies
\* with the int 5.
Ohms == { NoneArg }

Farads == { Str("1n") }

Volts == { IntArg }

----------------------------------------------------------------------------
(* Python helpers.                                                         *)

\* d[k] = v on a dict
Put(d, k, v) == [x \in (DOMAIN d) \cup {k} |-> IF x = k THEN v ELSE d[x]]

EmptyDict == [x \in {} |-> None]

Digit == <<"0", "1", "2", "3", "4", "5", "6", "7", "8", "9">>

\* str(n) for a non-negative int
RECURSIVE str(_)
str(n) == IF n < 10 THEN Digit[n + 1]
          ELSE str(n \div 10) \o Digit[(n % 10) + 1]

\* the code points str.split() takes for whitespace, those str.isspace() is
\* true of: U+0009 to U+000D, U+001C to U+001F, U+0020, U+0085, U+00A0,
\* U+1680, U+2000 to U+200A, U+2028, U+2029, U+202F, U+205F, U+3000
Whitespace ==
    (9..13) \cup (28..32) \cup {133, 160, 5760} \cup (8192..8202)
    \cup {8232, 8233, 8239, 8287, 12288}

\* the characters a name is spelled with: U+0021 to U+005F, and U+0061 to
\* U+007E, in code point order
PrintableLow ==
    <<"!", "\"", "#", "$", "%", "&", "'", "(", ")", "*", "+", ",", "-", ".", "/",
      "0", "1", "2", "3", "4", "5", "6", "7", "8", "9", ":", ";", "<", "=", ">",
      "?", "@", "A", "B", "C", "D", "E", "F", "G", "H", "I", "J", "K", "L", "M",
      "N", "O", "P", "Q", "R", "S", "T", "U", "V", "W", "X", "Y", "Z", "[", "\\",
      "]", "^", "_">>

PrintableHigh ==
    <<"a", "b", "c", "d", "e", "f", "g", "h", "i", "j", "k", "l", "m", "n", "o",
      "p", "q", "r", "s", "t", "u", "v", "w", "x", "y", "z", "{", "|", "}", "~">>

\* the one-character str of a code point.  A name is a TLA+ string, which
\* spells printable ASCII except the grave accent U+0060: any other code
\* point that is no whitespace has no str here, and a Python str holding one
\* is no input of this model.
chr(c) == IF c \in 33..95 THEN PrintableLow[c - 32] ELSE PrintableHigh[c - 96]

\* str.split() without arguments on the code points s: the maximal runs of
\* non-whitespace characters, each as a str
RECURSIVE split_from(_, _, _)
split_from(s, cur, acc) ==
    IF s = <<>> THEN (IF cur = "" THEN acc ELSE Append(acc, cur))
    ELSE IF Head(s) \in Whitespace
         THEN split_from(Tail(s), "", IF cur = "" THEN acc ELSE Append(acc, cur))
         ELSE split_from(Tail(s), cur \o chr(Head(s)), acc)

split(s) == split_from(s, "", <<>>)

----------------------------------------------------------------------------
(* The store threaded through the constructors: the part of the state a    *)
(* declaration can change, and the pending exception.                      *)

Store == [mods |-> modules, sigs |-> sigobj, SigId |-> SigId,
          IdCount |-> IdCount, exc |-> None, ret |-> 0]

Raise(st, e) == [st EXCEPT !.exc = e]

\* the module the current context designates
CurrentModule == ChipyCurrentContext[Len(ChipyCurrentContext)]

\* class attributes of the ChipyDevice subclasses
RefDes == [R |-> "R", C |-> "C", Q |-> "Q", V |-> "V"]

Skin == [R |-> "resistor", C |-> "capacitor", Q |-> "transistor-npn", V |-> None]

DefaultValue == Str(" ")

----------------------------------------------------------------------------
(* ChipyAnalogSignal                                                       *)

\* ChipyAnalogSignal.__init__(self, module, name) with a given name
ChipyAnalogSignal(st, m, name) ==
    LET id == st.SigId + 1
        self == [id |-> id, name |-> name, module |-> m, width |-> 1,
                 power |-> FALSE, power_value |-> Zero, ground |-> FALSE,
                 inport |-> FALSE, outport |-> FALSE, digital |-> FALSE,
                 high_value |-> Zero, low_value |-> Zero,
                 high_threshold |-> Zero, low_threshold |-> Zero]
    IN [st EXCEPT !.mods[m].signals = Put(@, name, id),
                  !.SigId = id,
                  !.sigs = Put(@, id, self),
                  !.ret = id]

\* chipy.Concat(arg), a function of chipy.Chipy: what it returns is no
\* ChipyAnalogSignal.  No call of this model reaches it: every call made in
\* this file passes width 1, and no direct call passes a tuple without one.
Concat(st, arg) == [st EXCEPT !.ret = 0]

\* the body of AnalogSig(arg, width); ret is the signal object returned
AnalogSigCall(st, arg, width) ==
    IF arg.kind = "ChipyAnalogSignal"
    THEN IF ~width.isnone /\ st.sigs[arg.id].width # width.val
         THEN Raise(st, AssertArgWidth)
         ELSE [st EXCEPT !.ret = arg.id]
    ELSE IF arg.kind = "tuple"
    THEN IF ~width.isnone THEN Raise(st, AssertWidthNone)
         ELSE Concat(st, arg)
    ELSE IF arg.kind = "str"
    THEN IF ChipyCurrentContext = <<>> THEN Raise(st, NoModule)
         ELSE IF arg.name \in DOMAIN st.mods[CurrentModule].signals
         THEN LET signal == st.mods[CurrentModule].signals[arg.name]
              IN IF ~width.isnone /\ st.sigs[signal].width # width.val
                 THEN Raise(st, AssertWidth)
                 ELSE [st EXCEPT !.ret = signal]
         ELSE LET s1 == ChipyAnalogSignal(st, CurrentModule, arg.name)
              IN IF ~width.isnone
                 THEN [s1 EXCEPT !.sigs[s1.ret].width = width.val]
                 ELSE s1
    ELSE Raise(st, AssertZero)

----------------------------------------------------------------------------
(* Devices                                                                 *)

\* ChipyDevice.__init__ without `assert not name in module.devices`
ChipyDevice_NoAssert(st, m, cls, name) ==
    LET s1 == IF name = NoneArg
              THEN [st EXCEPT !.IdCount[cls] = @ + 1]
              ELSE st
        nm == IF name = NoneArg THEN Str(RefDes[cls] \o str(s1.IdCount[cls]))
              ELSE name
        self == [cls |-> cls, name |-> nm, attrs |-> EmptyDict,
                 value |-> DefaultValue]
    IN [s1 EXCEPT !.mods[m].devices = Put(@, nm, self), !.ret = nm]

\* ChipyDevice.__init__(self, module, name); ret is the name registered, the
\* key of module.devices: the str generated, or the value the caller passed
ChipyDevice(st, m, cls, name) ==
    LET s1 == IF name = NoneArg
              THEN [st EXCEPT !.IdCount[cls] = @ + 1]
              ELSE st
        nm == IF name = NoneArg THEN Str(RefDes[cls] \o str(s1.IdCount[cls]))
              ELSE name
        self == [cls |-> cls, name |-> nm, attrs |-> EmptyDict,
                 value |-> DefaultValue]
    IN IF nm \in DOMAIN s1.mods[m].devices
       THEN Raise(s1, AssertDevice)
       ELSE [s1 EXCEPT !.mods[m].devices = Put(@, nm, self), !.ret = nm]

\* self.<attr> = AnalogSig(arg, 1) on the device registered as dev
BindPin(st, m, dev, attr, arg) ==
    IF st.exc # None THEN st
    ELSE LET s1 == AnalogSigCall(st, arg, Width(1))
         IN IF s1.exc # None THEN s1
            ELSE [s1 EXCEPT !.mods[m].devices[dev].attrs = Put(@, attr, s1.ret)]

\* ChipyPassive.__init__(self, module, name, sig1, sig2, value)
ChipyPassive(st, m, cls, name, sig1, sig2, value) ==
    LET s0 == ChipyDevice(st, m, cls, name)
        dev == s0.ret
        s1 == BindPin(s0, m, dev, "sig1", sig1)
        s2 == BindPin(s1, m, dev, "sig2", sig2)
    IN IF s0.exc # None THEN s0
       ELSE IF s2.exc # None THEN s2
       ELSE [s2 EXCEPT !.mods[m].devices[dev].value = value, !.ret = dev]

\* ChipyTransistor.__init__(self, module, name, c, b, e, substrate)
ChipyTransistor(st, m, name, c, b, e, substrate) ==
    LET s0 == ChipyDevice(st, m, "Q", name)
        dev == s0.ret
        s1 == BindPin(s0, m, dev, "c", c)
        s2 == BindPin(s1, m, dev, "b", b)
        s3 == BindPin(s2, m, dev, "e", e)
        s4 == BindPin(s3, m, dev, "substrate", substrate)
    IN IF s0.exc # None THEN s0
       ELSE IF s4.exc # None THEN s4
       ELSE [s4 EXCEPT !.ret = dev]

\* device.connections(); defined when every attribute it reads is set
ConnectionAttrs(device) ==
    IF device.cls = "Q" THEN {"c", "b", "e"} ELSE {"sig1", "sig2"}

connections(device) ==
    IF device.cls = "Q"
    THEN [C |-> device.attrs["c"], B |-> device.attrs["b"], E |-> device.attrs["e"]]
    ELSE [L |-> device.attrs["sig1"], R |-> device.attrs["sig2"]]

----------------------------------------------------------------------------
(* Committing a store: the state after a call returned or raised.          *)

RECURSIVE NumDevices(_)
NumDevices(mods) ==
    IF mods = <<>> THEN 0
    ELSE Cardinality(DOMAIN Head(mods).devices) + NumDevices(Tail(mods))

\* the signal object a stored value is, if it is one
ValueRefs(v) == IF v.kind = "ChipyAnalogSignal" THEN {v.id} ELSE {}

\* the signal objects a module refers to: as a value of its signals
\* dictionary, as a key of its devices dictionary (which is also the name
\* of that device), through an attribute of a device, or as the value of a
\* device
Referenced(mods) ==
    UNION { { mods[i].signals[n] : n \in DOMAIN mods[i].signals }
            \cup UNION { ValueRefs(k) : k \in DOMAIN mods[i].devices }
            \cup UNION { { mods[i].devices[d].attrs[a] :
                               a \in DOMAIN mods[i].devices[d].attrs } :
                           d \in DOMAIN mods[i].devices }
            \cup UNION { ValueRefs(mods[i].devices[d].value) :
                           d \in DOMAIN mods[i].devices }
          : i \in DOMAIN mods }

\* the signal objects a signal object refers to: the values stored in it
SignalRefs(signal) ==
    ValueRefs(signal.power_value) \cup ValueRefs(signal.high_value)
    \cup ValueRefs(signal.low_value)

\* the signal objects reachable from those of S
RECURSIVE Reachable(_, _)
Reachable(sigs, S) ==
    LET T == S \cup UNION { SignalRefs(sigs[i]) : i \in S }
    IN IF T = S THEN S ELSE Reachable(sigs, T)

\* the signal objects alive after a call: those reachable from the modules
\* and from the one the caller holds.  CPython frees an object when its last
\* reference goes.
Alive(st) ==
    Reachable(st.sigs, Referenced(st.mods) \cup ({kept} \cap DOMAIN st.sigs))

\* the bound leaves room for one more object.  A call that is certain to
\* construct one is not started without it, which Commit would refuse anyway.
Room == SigId + NumDevices(modules) < MaxObjects

Commit(st) ==
    /\ st.SigId + NumDevices(st.mods) <= MaxObjects
    /\ modules' = st.mods
    /\ sigobj' = [id \in Alive(st) |-> st.sigs[id]]
    /\ SigId' = st.SigId
    /\ IdCount' = st.IdCount
    /\ raised' = st.exc
    /\ kept' = kept

Init ==
    /\ modules = <<>>
    /\ ChipyModulesDict = EmptyDict
    /\ ChipyCurrentContext = <<>>
    /\ sigobj = EmptyDict
    /\ SigId = 0
    /\ IdCount = [R |-> 0, C |-> 0, Q |-> 0, V |-> 0]
    /\ raised = None
    /\ kept = 0

----------------------------------------------------------------------------
(* Modules and contexts                                                    *)

\* ChipyAnalogModule.__init__ without `assert name not in chipy.ChipyModulesDict`
ChipyAnalogModule_NoAssert(name) ==
    LET self == [name |-> name, signals |-> EmptyDict, devices |-> EmptyDict]
    IN /\ modules' = Append(modules, self)
       /\ ChipyModulesDict' = Put(ChipyModulesDict, name, Len(modules) + 1)
       /\ raised' = None

\* ChipyAnalogModule.__init__(self, name), reached through AddAnalogModule
ChipyAnalogModule(name) ==
    LET self == [name |-> name, signals |-> EmptyDict, devices |-> EmptyDict]
    IN IF name \in DOMAIN ChipyModulesDict
       THEN /\ raised' = AssertModule
            /\ UNCHANGED <<modules, ChipyModulesDict>>
       ELSE /\ modules' = Append(modules, self)
            /\ ChipyModulesDict' = Put(ChipyModulesDict, name, Len(modules) + 1)
            /\ raised' = None

AddAnalogModule(name) ==
    /\ ChipyAnalogModule(name)
    /\ UNCHANGED <<ChipyCurrentContext, sigobj, SigId, IdCount, kept>>

\* ChipyAnalogModule.__enter__: chipy.ChipyContext(newmod=self)
Enter(m) ==
    /\ Len(ChipyCurrentContext) < MaxCtxDepth
    /\ ChipyCurrentContext' = Append(ChipyCurrentContext, m)
    /\ raised' = None
    /\ UNCHANGED <<modules, ChipyModulesDict, sigobj, SigId, IdCount, kept>>

\* ChipyAnalogModule.__exit__: chipy.ChipyCurrentContext.popctx(), which is
\* an attribute read on None when no context is entered
Exit ==
    /\ IF ChipyCurrentContext = <<>>
       THEN /\ raised' = NoPopctx
            /\ UNCHANGED ChipyCurrentContext
       ELSE /\ ChipyCurrentContext' =
                  SubSeq(ChipyCurrentContext, 1, Len(ChipyCurrentContext) - 1)
            /\ raised' = None
    /\ UNCHANGED <<modules, ChipyModulesDict, sigobj, SigId, IdCount, kept>>

----------------------------------------------------------------------------
(* Declarations                                                            *)

\* AnalogSig(arg, width) called by the user
AnalogSig(arg, width) ==
    /\ Commit(AnalogSigCall(Store, arg, width))
    /\ UNCHANGED <<ChipyModulesDict, ChipyCurrentContext>>

\* the reference designator the next auto-named device of a class gets
NextRef(cls) == Str(RefDes[cls] \o str(IdCount[cls] + 1))

\* `assert chipy.ChipyCurrentContext is not None` failing
NoContext ==
    /\ ChipyCurrentContext = <<>>
    /\ raised' = AssertContext
    /\ UNCHANGED <<modules, ChipyModulesDict, ChipyCurrentContext, sigobj, SigId, IdCount, kept>>

AddR(sig1, sig2, value) ==
    \/ NoContext
    \/ /\ ChipyCurrentContext # <<>>
       /\ ~Room => NextRef("R") \in DOMAIN modules[CurrentModule].devices
       /\ Commit(ChipyPassive(Store, CurrentModule, "R", NoneArg, sig1, sig2, value))
       /\ UNCHANGED <<ChipyModulesDict, ChipyCurrentContext>>

AddC(sig1, sig2, value) ==
    \/ NoContext
    \/ /\ ChipyCurrentContext # <<>>
       /\ ~Room => NextRef("C") \in DOMAIN modules[CurrentModule].devices
       /\ Commit(ChipyPassive(Store, CurrentModule, "C", NoneArg, sig1, sig2, value))
       /\ UNCHANGED <<ChipyModulesDict, ChipyCurrentContext>>

AddQ(c, b, e, substrate) ==
    \/ NoContext
    \/ /\ ChipyCurrentContext # <<>>
       /\ ~Room => NextRef("Q") \in DOMAIN modules[CurrentModule].devices
       /\ Commit(ChipyTransistor(Store, CurrentModule, NoneArg, c, b, e, substrate))
       /\ UNCHANGED <<ChipyModulesDict, ChipyCurrentContext>>

\* vs = ChipyVoltageSource(module, name, name, '0', value) and the two
\* assignments to vs.sig1
PowerSource(st, m, name, value) ==
    LET s1 == ChipyPassive(st, m, "V", name, name, Str("0"), value)
        sig1 == s1.mods[m].devices[s1.ret].attrs["sig1"]
    IN IF s1.exc # None THEN s1
       ELSE [s1 EXCEPT !.sigs[sig1].power = TRUE,
                       !.sigs[sig1].power_value = value,
                       !.ret = sig1]

AddPower(name, value) ==
    \/ NoContext
    \/ /\ ChipyCurrentContext # <<>>
       /\ ~Room => name \in DOMAIN modules[CurrentModule].devices
       /\ Commit(PowerSource(Store, CurrentModule, name, value))
       /\ UNCHANGED <<ChipyModulesDict, ChipyCurrentContext>>

\* sig = AnalogSig(name, 1); sig.ground = True
GroundSignal(st, name) ==
    LET s1 == AnalogSigCall(st, name, Width(1))
    IN IF s1.exc # None THEN s1
       ELSE [s1 EXCEPT !.sigs[s1.ret].ground = TRUE]

AddGnd(name) ==
    \/ NoContext
    \/ /\ ChipyCurrentContext # <<>>
       /\ Commit(GroundSignal(Store, name))
       /\ UNCHANGED <<ChipyModulesDict, ChipyCurrentContext>>

----------------------------------------------------------------------------
(* Ports                                                                   *)

IntType(n) == [isint |-> TRUE, val |-> n]

\* AddDigitalInput from `if not isinstance(type, int)` on, for the one name
DigitalInput(st, name, type, high_value, low_value) ==
    IF ~type.isint THEN Raise(st, "NotImplementedError")
    ELSE IF ChipyCurrentContext = <<>> THEN Raise(st, AssertContext)
    ELSE LET s1 == ChipyAnalogSignal(st, CurrentModule, name)
         IN [s1 EXCEPT !.sigs[s1.ret].width = type.val,
                       !.sigs[s1.ret].inport = TRUE,
                       !.sigs[s1.ret].digital = TRUE,
                       !.sigs[s1.ret].high_value = high_value,
                       !.sigs[s1.ret].low_value = low_value]

\* [AddDigitalInput(n) for n in names]: every other parameter at its default
RECURSIVE DigitalInputs(_, _)
DigitalInputs(st, names) ==
    IF names = <<>> \/ st.exc # None THEN st
    ELSE DigitalInputs(DigitalInput(st, Head(names), IntType(1), Float33, Zero),
                       Tail(names))

DigitalInputCall(st, name, type, high_value, low_value) ==
    LET names == split(name)
    IN IF Len(names) > 1 THEN DigitalInputs(st, names)
       ELSE IF Len(names) # 1 THEN Raise(st, AssertNames)
       ELSE DigitalInput(st, names[1], type, high_value, low_value)

AddDigitalInput(name, type, high_value, low_value) ==
    /\ Commit(DigitalInputCall(Store, name, type, high_value, low_value))
    /\ UNCHANGED <<ChipyModulesDict, ChipyCurrentContext>>

\* AddAnalogOutput from `if not isinstance(type, int)` on, for the one name
AnalogOutput(st, name, type) ==
    IF ~type.isint THEN Raise(st, "NotImplementedError")
    ELSE IF ChipyCurrentContext = <<>> THEN Raise(st, AssertContext)
    ELSE LET s1 == ChipyAnalogSignal(st, CurrentModule, name)
         IN [s1 EXCEPT !.sigs[s1.ret].width = type.val,
                       !.sigs[s1.ret].outport = TRUE]

\* [AddAnalogOutput(n) for n in names]
RECURSIVE AnalogOutputs(_, _)
AnalogOutputs(st, names) ==
    IF names = <<>> \/ st.exc # None THEN st
    ELSE AnalogOutputs(AnalogOutput(st, Head(names), IntType(1)), Tail(names))

AnalogOutputCall(st, name, type) ==
    LET names == split(name)
    IN IF Len(names) > 1 THEN AnalogOutputs(st, names)
       ELSE IF Len(names) # 1 THEN Raise(st, AssertNames)
       ELSE AnalogOutput(st, names[1], type)

AddAnalogOutput(name, type) ==
    /\ Commit(AnalogOutputCall(Store, name, type))
    /\ UNCHANGED <<ChipyModulesDict, ChipyCurrentContext>>

AddDigitalOutput(name, type) ==
    /\ raised' = "NotImplementedError"
    /\ UNCHANGED <<modules, ChipyModulesDict, ChipyCurrentContext, sigobj, SigId, IdCount, kept>>

AddAnalogInput(name, type) ==
    /\ raised' = "NotImplementedError"
    /\ UNCHANGED <<modules, ChipyModulesDict, ChipyCurrentContext, sigobj, SigId, IdCount, kept>>

----------------------------------------------------------------------------
(* Netlist                                                                 *)

yosys_cell(skin_name, pin_net_dict, value) ==
    LET conns == [pin \in DOMAIN pin_net_dict |-> <<pin_net_dict[pin]>>]
    IN IF value # NoneArg
       THEN [type |-> skin_name, connections |-> conns,
             attributes |-> [value |-> value]]
       ELSE [type |-> skin_name, connections |-> conns]

\* the devices loop: the refs that get a cell
SkinnedRefs(self) ==
    {ref \in DOMAIN self.devices : Skin[self.devices[ref].cls] # None}

\* the if/elif chain with the ground test ahead of the power test
signal_entry_GroundFirst(signal) ==
    IF signal.ground THEN "ground"
    ELSE IF signal.power THEN "power"
    ELSE IF signal.inport THEN "input"
    ELSE IF signal.outport THEN "output"
    ELSE "none"

\* the if/elif chain of the signals loop: what one signal is emitted as
signal_entry(signal) ==
    IF signal.power THEN "power"
    ELSE IF signal.ground THEN "ground"
    ELSE IF signal.inport THEN "input"
    ELSE IF signal.outport THEN "output"
    ELSE "none"

\* the signals loop: the names that get a cell, and those that get a port.
\* Every key of module.signals is a str.
CellSignals(self) ==
    {name \in DOMAIN self.signals :
        signal_entry(sigobj[self.signals[name]]) \in {"power", "ground"}}

PortSignals(self) ==
    {name \in DOMAIN self.signals :
        signal_entry(sigobj[self.signals[name]]) \in {"input", "output"}}

\* ChipyAnalogModule.netlist(self): the dict returned, or the AttributeError
\* of a connections() that reads an attribute the device never got.  The
\* keys of cells are the keys of module.devices and the signal names; the
\* signals loop runs after the devices loop, so its cells overwrite.
netlist(self) ==
    LET signal(name) == sigobj[self.signals[name]]
        devcell(ref) == yosys_cell(Skin[self.devices[ref].cls],
                                   connections(self.devices[ref]),
                                   self.devices[ref].value)
        sigcell(name) ==
            IF signal_entry(signal(name)) = "power"
            THEN yosys_cell("power", [VCC |-> signal(name).id], Str(name))
            ELSE yosys_cell("ground", [GND |-> signal(name).id], Str(name))
        port(name) ==
            [direction |-> signal_entry(signal(name)), bits |-> <<signal(name).id>>]
    IN IF \E ref \in SkinnedRefs(self) :
              ~(ConnectionAttrs(self.devices[ref]) \subseteq DOMAIN self.devices[ref].attrs)
       THEN [exc |-> "AttributeError"]
       ELSE [exc |-> None,
             ports |-> [name \in PortSignals(self) |-> port(name)],
             cells |-> [k \in SkinnedRefs(self)
                               \cup { Str(name) : name \in CellSignals(self) } |->
                           IF k.kind = "str" /\ k.name \in CellSignals(self)
                           THEN sigcell(k.name) ELSE devcell(k)]]

\* s = <a signal object>: the caller stores in its variable the signal object
\* a call returned or one it reads from a module; what the variable held
\* before loses that reference
Keep(id) ==
    /\ id # kept
    /\ kept' = id
    /\ sigobj' = [i \in Reachable(sigobj, Referenced(modules) \cup {id}) |->
                     sigobj[i]]
    /\ UNCHANGED <<modules, ChipyModulesDict, ChipyCurrentContext, SigId, IdCount, raised>>

\* json.dumps(..., sort_keys=True) on the netlist of one module: the
\* TypeError it raises, or None.  The ids, the types and the directions are
\* ints and strs; a cell value is what the caller passed, and a signal
\* object is not JSON serializable; a key of cells is what the caller passed
\* as a device name, a tuple or a signal object is no JSON key, and keys of
\* two types cannot be sorted.
json_dumps(nl) ==
    IF \/ \E k \in DOMAIN nl.cells :
             /\ "attributes" \in DOMAIN nl.cells[k]
             /\ nl.cells[k].attributes.value.kind = "ChipyAnalogSignal"
       \/ \E k \in DOMAIN nl.cells : k.kind \in {"tuple", "ChipyAnalogSignal"}
       \/ \E k1, k2 \in DOMAIN nl.cells :
             /\ k1.kind # k2.kind
             /\ ~({k1.kind, k2.kind} \subseteq {"int", "float"})
    THEN "TypeError" ELSE None

\* WriteNetlist(f): the netlist of every registered module, then json.dumps
WriteNetlist ==
    /\ raised' = IF \E n \in DOMAIN ChipyModulesDict :
                        netlist(modules[ChipyModulesDict[n]]).exc # None
                  THEN "AttributeError"
                  ELSE IF \E n \in DOMAIN ChipyModulesDict :
                             json_dumps(netlist(modules[ChipyModulesDict[n]])) # None
                  THEN "TypeError" ELSE None
    /\ UNCHANGED <<modules, ChipyModulesDict, ChipyCurrentContext, sigobj, SigId, IdCount, kept>>

----------------------------------------------------------------------------

\* one step of the program: any call, with arguments from the given sets
Step(modnames, sigcalls, signames, powernames, portargs, typeargs) ==
    \/ \E n \in modnames : AddAnalogModule(n)
    \/ \E m \in DOMAIN modules : Enter(m)
    \/ Exit
    \/ \E call \in sigcalls : AnalogSig(call[1], call[2])
    \/ \E s1, s2 \in signames, v \in Ohms : AddR(s1, s2, v)
    \/ \E s1, s2 \in signames, v \in Farads : AddC(s1, s2, v)
    \/ \E c, b, e \in signames : AddQ(c, b, e, Str("0"))
    \/ \E n \in powernames, v \in Volts : AddPower(n, v)
    \/ \E n \in signames : AddGnd(n)
    \/ \E n \in portargs, t \in typeargs : AddDigitalInput(n, t, Float33, Zero)
    \/ \E n \in portargs, t \in typeargs : AddAnalogOutput(n, t)
    \/ \E n \in portargs, t \in typeargs : AddDigitalOutput(n, t)
    \/ \E n \in portargs, t \in typeargs : AddAnalogInput(n, t)
    \/ WriteNetlist

\* declarations by name inside one module
Next ==
    Step(ModNames, { <<Str("a"), NoWidth>> }, SigNames, PowerNames,
         PortArgs, TypeArgs)

\* declarations by name spread over two modules, with one signal name and
\* 1-bit ports
NextModules ==
    Step(TwoModNames, { <<Str("a"), NoWidth>> }, { Str("a") }, { Str("a") },
         { <<97>> }, { IntType(1) })

\* declarations inside one module of rails and ports that all go by the
\* name 'None', the str that reads like the value None
NextRails ==
    Step(ModNames, { <<Str("None"), NoWidth>> }, { Str("None") }, { Str("None") },
         { <<78, 111, 110, 101>> }, TypeArgs)

\* declarations inside one module by a caller that keeps a signal object and
\* passes arguments of every kind
NextArgs ==
    \/ \E n \in ModNames : AddAnalogModule(n)
    \/ \E m \in DOMAIN modules : Enter(m)
    \/ Exit
    \/ \E id \in DOMAIN sigobj : Keep(id)
    \/ \E call \in SigCalls : AnalogSig(call[1], call[2])
    \/ \E s1, s2 \in SigArgs, v \in Ohms : AddR(s1, s2, v)
    \/ \E s1, s2 \in SigArgs, v \in Farads \cup SigObjects : AddC(s1, s2, v)
    \/ \E c, e \in SigArgs : AddQ(c, Str("a"), e, Str("0"))
    \/ \E n \in SigArgs, v \in Volts : AddPower(n, v)
    \/ \E n \in SigArgs : AddGnd(n)
    \/ \E t \in TypeArgs : AddDigitalInput(<<97>>, t, Float33, Zero)
    \/ \E t \in TypeArgs : AddAnalogOutput(<<97>>, t)
    \/ \E t \in TypeArgs : AddDigitalOutput(<<97>>, t)
    \/ \E t \in TypeArgs : AddAnalogInput(<<97>>, t)
    \/ WriteNetlist

Spec == Init /\ [][Next]_vars

SpecModules == Init /\ [][NextModules]_vars

SpecArgs == Init /\ [][NextArgs]_vars

SpecRails == Init /\ [][NextRails]_vars

----------------------------------------------------------------------------
(* Properties                                                              *)

\* the module object registered under a name
Registered(n) == modules[ChipyModulesDict[n]]

\* a device-adding call failed and left the devices dictionary of the
\* current module as it was
DeviceRejected ==
    /\ raised' = AssertDevice
    /\ modules'[CurrentModule].devices = modules[CurrentModule].devices

\* every device of the module got every attribute its constructor assigns
Complete(self) ==
    \A d \in DOMAIN self.devices :
        LET dev == self.devices[d]
        IN DOMAIN dev.attrs =
              (IF dev.cls = "Q" THEN {"c", "b", "e", "substrate"} ELSE {"sig1", "sig2"})

\* C1: within one module a name once stored in module.signals keeps the
\* signal object stored under it, whatever operation follows.
C1_SignalRegisteredOnce ==
    [][\A i \in DOMAIN modules : \A n \in DOMAIN modules[i].signals :
          /\ n \in DOMAIN modules'[i].signals
          /\ modules'[i].signals[n] = modules[i].signals[n]]_vars

\* C2: AddAnalogModule under a registered name raises AssertionError and
\* leaves the registry and the module objects unchanged; and no step
\* changes the module object a registered name maps to.
C2_ModuleNameUnique ==
    [][/\ \A n \in DOMAIN ChipyModulesDict :
            /\ n \in DOMAIN ChipyModulesDict'
            /\ ChipyModulesDict'[n] = ChipyModulesDict[n]
            /\ Registered(n)'.name = n
       /\ \A n \in DOMAIN ChipyModulesDict :
            AddAnalogModule(n) =>
                /\ raised' = AssertModule
                /\ ChipyModulesDict' = ChipyModulesDict
                /\ modules' = modules]_vars

\* C2 witness: a module that already holds a signal was created again under
\* its name, and the call raised.
C2_Witness ==
    /\ raised = AssertModule
    /\ \E n \in DOMAIN ChipyModulesDict : DOMAIN Registered(n).signals # {}

\* C3: a device registration under a name that is already a key of the
\* module's devices raises AssertionError and leaves that dictionary
\* unchanged (AddPower with a taken name, AddR, AddC, AddQ when the generated
\* designator is taken); and no step replaces a registered device.
C3_DeviceNameUnique ==
    [][/\ \A i \in DOMAIN modules : \A d \in DOMAIN modules[i].devices :
            /\ d \in DOMAIN modules'[i].devices
            /\ modules'[i].devices[d] = modules[i].devices[d]
       /\ ChipyCurrentContext # <<>> =>
            LET devs == DOMAIN modules[CurrentModule].devices
            IN /\ \A n \in PowerNames \cap devs, v \in Volts :
                    AddPower(n, v) => DeviceRejected
               /\ NextRef("R") \in devs =>
                    \A s1, s2 \in SigNames, v \in Ohms :
                        AddR(s1, s2, v) => DeviceRejected
               /\ NextRef("C") \in devs =>
                    \A s1, s2 \in SigNames, v \in Farads :
                        AddC(s1, s2, v) => DeviceRejected
               /\ NextRef("Q") \in devs =>
                    \A c, b, e \in SigNames :
                        AddQ(c, b, e, Str("0")) => DeviceRejected]_vars

\* C3 witness: AddR generated R1 in a module whose devices already hold a
\* voltage source named R1, and raised; every signal is one bit wide, so the
\* name check is the assertion that failed.
C3_Witness ==
    /\ raised = AssertDevice
    /\ ChipyCurrentContext # <<>>
    /\ IdCount["R"] = 1
    /\ Str("R1") \in DOMAIN modules[CurrentModule].devices
    /\ modules[CurrentModule].devices[Str("R1")].cls = "V"
    /\ \A id \in DOMAIN sigobj : sigobj[id].width = 1

\* the module objects
Modules == { modules[i] : i \in DOMAIN modules }

\* the signal object a module stores under a name
SignalOf(self, name) == sigobj[self.signals[name]]

\* the cell value netlist() hands to yosys_cell for the key k of cells:
\* the signal name for a power or ground cell, else the device's value
CellValue(self, k) ==
    IF k.kind = "str" /\ k.name \in CellSignals(self) THEN k
    ELSE self.devices[k].value

\* C4: for every module state netlist() returns {'ports', 'cells'}; every
\* port is a direction 'input' or 'output' with one net id in 'bits'; every
\* cell has a 'type' and pins that each hold one net id, and has
\* 'attributes' = {'value': v} exactly when its value v is not None.
C4_NetlistShape ==
    \A self \in Modules :
        LET nl == netlist(self)
        IN /\ nl.exc = None
           /\ \A p \in DOMAIN nl.ports :
                /\ nl.ports[p].direction \in {"input", "output"}
                /\ Len(nl.ports[p].bits) = 1
                /\ nl.ports[p].bits[1] \in 1..SigId
           /\ \A k \in DOMAIN nl.cells :
                /\ {"type", "connections"} \subseteq DOMAIN nl.cells[k]
                /\ \A pin \in DOMAIN nl.cells[k].connections :
                     /\ Len(nl.cells[k].connections[pin]) = 1
                     /\ nl.cells[k].connections[pin][1] \in 1..SigId
                /\ ("attributes" \in DOMAIN nl.cells[k]) <=> (CellValue(self, k) # NoneArg)
                /\ "attributes" \in DOMAIN nl.cells[k] =>
                     nl.cells[k].attributes = [value |-> CellValue(self, k)]

\* C5: AddDigitalOutput and AddAnalogInput always raise NotImplementedError,
\* AddDigitalInput and AddAnalogOutput raise it whenever type is not an int,
\* for one name or several; no signal or device is registered by the call.
\* Stated for the calls made inside a module context.
C5_NotImplemented ==
    [][\A n \in {a \in PortArgs : Len(split(a)) >= 1}, t \in TypeArgs :
          (/\ ChipyCurrentContext # <<>>
           /\ \/ AddDigitalOutput(n, t)
              \/ AddAnalogInput(n, t)
              \/ (~t.isint /\ AddDigitalInput(n, t, Float33, Zero))
              \/ (~t.isint /\ AddAnalogOutput(n, t)))
          => /\ raised' = "NotImplementedError"
             /\ modules' = modules
             /\ sigobj' = sigobj]_vars

\* C6: once every device of a module is completely built, cells holds, under
\* its reference designator, the cell of every device that has a skin, with
\* that device's type and pins; and under its name a cell for every power or
\* ground signal.
C6_DeviceCellsKept ==
    \A self \in Modules :
        Complete(self) =>
            LET nl == netlist(self)
            IN /\ nl.exc = None
               /\ \A ref \in SkinnedRefs(self) :
                    /\ ref \in DOMAIN nl.cells
                    /\ nl.cells[ref].type = Skin[self.devices[ref].cls]
                    /\ DOMAIN nl.cells[ref].connections =
                          DOMAIN connections(self.devices[ref])
               /\ \A name \in CellSignals(self) :
                    /\ Str(name) \in DOMAIN nl.cells
                    /\ nl.cells[Str(name)].type \in {"power", "ground"}

\* C7: when netlist() returns, each signal of the module is emitted once by
\* the priority power, ground, input, output: a power signal is the cell
\* 'power' with pin VCC, else a ground signal is the cell 'ground' with pin
\* GND, else an input or output is the port of that direction; a signal
\* emitted as a cell is no port, one emitted as a port or not at all has no
\* power or ground cell; and the cells of a voltage source's name are never
\* the device's: every cell is a power or ground cell or has a skin.
C7_SignalPriority ==
    \A self \in Modules :
        LET nl == netlist(self)
        IN nl.exc = None =>
            /\ \A name \in DOMAIN self.signals :
                 LET sig == SignalOf(self, name)
                     SignalCell == /\ Str(name) \in DOMAIN nl.cells
                                   /\ nl.cells[Str(name)].type \in {"power", "ground"}
                 IN /\ sig.power =>
                        /\ Str(name) \in DOMAIN nl.cells
                        /\ nl.cells[Str(name)] =
                              [type |-> "power",
                               connections |-> [VCC |-> <<sig.id>>],
                               attributes |-> [value |-> Str(name)]]
                        /\ name \notin DOMAIN nl.ports
                    /\ (~sig.power /\ sig.ground) =>
                        /\ Str(name) \in DOMAIN nl.cells
                        /\ nl.cells[Str(name)] =
                              [type |-> "ground",
                               connections |-> [GND |-> <<sig.id>>],
                               attributes |-> [value |-> Str(name)]]
                        /\ name \notin DOMAIN nl.ports
                    /\ (~sig.power /\ ~sig.ground /\ sig.inport) =>
                        /\ name \in DOMAIN nl.ports
                        /\ nl.ports[name] = [direction |-> "input", bits |-> <<sig.id>>]
                        /\ ~SignalCell
                    /\ (~sig.power /\ ~sig.ground /\ ~sig.inport /\ sig.outport) =>
                        /\ name \in DOMAIN nl.ports
                        /\ nl.ports[name] = [direction |-> "output", bits |-> <<sig.id>>]
                        /\ ~SignalCell
                    /\ (~sig.power /\ ~sig.ground /\ ~sig.inport /\ ~sig.outport) =>
                        /\ name \notin DOMAIN nl.ports
                        /\ ~SignalCell
            /\ DOMAIN nl.ports \subseteq DOMAIN self.signals
            /\ \A k \in DOMAIN nl.cells :
                 \/ /\ k.kind = "str"
                    /\ k.name \in DOMAIN self.signals
                    /\ nl.cells[k].type \in {"power", "ground"}
                 \/ /\ k \in DOMAIN self.devices
                    /\ self.devices[k].cls # "V"
                    /\ nl.cells[k].type = Skin[self.devices[k].cls]

\* C7 witness: netlist() returns for a module that holds a voltage source
\* named 'None' and the signal 'None', which is a power rail, a ground and an
\* input port at once: it is emitted as the power cell, with the str 'None'
\* for its value, and as no port.
C7_Witness ==
    \E self \in Modules :
        /\ netlist(self).exc = None
        /\ Str("None") \in DOMAIN self.devices
        /\ self.devices[Str("None")].cls = "V"
        /\ "None" \in DOMAIN self.signals
        /\ SignalOf(self, "None").power
        /\ SignalOf(self, "None").ground
        /\ SignalOf(self, "None").inport
        /\ netlist(self).cells[Str("None")].type = "power"
        /\ netlist(self).cells[Str("None")].attributes = [value |-> Str("None")]
        /\ "None" \notin DOMAIN netlist(self).ports

\* the (declared name, net id) pairs of a returned netlist: the pins of the
\* device cells with the name of the signal each was bound to, and the pin
\* of each power or ground cell and the bit of each port with its name
NetEntries(self) ==
    UNION { { <<sigobj[connections(self.devices[ref])[pin]].name,
                connections(self.devices[ref])[pin]>> :
                  pin \in DOMAIN connections(self.devices[ref]) } :
              ref \in SkinnedRefs(self) \ { Str(name) : name \in CellSignals(self) } }
    \cup
    { <<name, SignalOf(self, name).id>> :
          name \in CellSignals(self) \cup PortSignals(self) }

\* C8: within one module two entries of the netlist carry the same net id
\* exactly when they were declared with the same signal name.
C8_OneNetPerName ==
    \A self \in Modules :
        netlist(self).exc = None =>
            \A e1, e2 \in NetEntries(self) : (e1[1] = e2[1]) <=> (e1[2] = e2[2])

\* C9: AddR, AddC, AddQ or AddPower raising on a terminal whose signal is
\* not one bit wide (the terminal given by name or as the signal object)
\* leaves the devices and signals dictionaries of every module unchanged;
\* every registered device has all its terminals bound to 1-bit signals, and
\* netlist() returns.
C9_FailedDeviceLeavesNoTrace ==
    /\ [][raised' \in {AssertWidth, AssertArgWidth} =>
            \A i \in DOMAIN modules :
                /\ modules'[i].devices = modules[i].devices
                /\ modules'[i].signals = modules[i].signals]_vars
    /\ [](\A self \in Modules :
             /\ Complete(self)
             /\ \A d \in DOMAIN self.devices : \A a \in DOMAIN self.devices[d].attrs :
                  sigobj[self.devices[d].attrs[a]].width = 1
             /\ netlist(self).exc = None)

\* C10: the reference designator AddR, AddC or AddQ would generate next is
\* never a key of the devices of the module it is added to.
C10_AutoNameFree ==
    ChipyCurrentContext # <<>> =>
        \A cls \in {"R", "C", "Q"} :
            NextRef(cls) \notin DOMAIN modules[CurrentModule].devices

====
